---------------------------- MODULE Spec2Model ----------------------------
(***************************************************************************)
(* A model of src/src/main.c: the player, the obstacle array, the per-frame *)
(* update sequence (update_reset, update_player, update_obstacles,         *)
(* update_player_collisions, update_camera) and get_aabb_mtv.              *)
(*                                                                         *)
(* Arithmetic.  The program computes in float.  The model computes exactly *)
(* on a fixed-point grid on which every value it meets is representable:   *)
(*   lengths and positions   in tenths of a world unit  (2.5  -> 25)       *)
(*   frame time dt           in tenths of a second      (0.1 s -> 1)       *)
(*   velocities, speeds      in world units per second  (30.0 -> 30)       *)
(*   health, damage          in health points           (100.0 -> 100)     *)
(*   CAMERA.target           in 1/CamScale of a tenth of a world unit      *)
(* so "rate * dt" (units/s times tenths of a second) is directly a length  *)
(* in tenths of a unit, and GRAVITY_ACCELERATION * dt is divided by 10.    *)
(* Float rounding is outside the model.                                    *)
(***************************************************************************)
EXTENDS Integers, Sequences, FiniteSets, TLC

VARIABLES
    PLAYER,        \* static Player PLAYER                      (main.c:34)
    N_OBSTACLES,   \* static int N_OBSTACLES                    (main.c:101)
    OBSTACLES,     \* static Obstacle OBSTACLES[MAX_N_OBSTACLES] (main.c:102)
    pc,            \* which call of update() (main.c:390-397) runs next
    frame,         \* this frame's GetFrameTime() and key states
    nframes,       \* frames polled since the program started
    resolved,      \* locals of the last update_player_collisions call
    first_level,   \* the obstacles as the first load_game left them
    r1, r2, mtv,   \* arguments and result of a direct get_aabb_mtv call
    idx,           \* return value of the last direct spawn call
    CAMERA         \* static Camera2D CAMERA: its target            (main.c:81)

vars == <<PLAYER, N_OBSTACLES, OBSTACLES, pc, frame, nframes, resolved,
          first_level, r1, r2, mtv, idx, CAMERA>>

---------------------------------------------------------------------------
(* Program constants *)

GRAVITY_ACCELERATION == 50

MAX_N_OBSTACLES == 64

PLAYER_MAX_HEALTH == 100

MAX_SPEED_WITHOUT_DAMAGE == 30

\* the number of platforms load_game spawns: for (int i = 0; i < 10; ++i)
N_PLATFORMS == 10

\* resolution of the grid CAMERA.target is kept on: four decimal digits
\* below a tenth of a world unit, so that four camera updates are exact
CamScale == 10 * 10 * 10 * 10

---------------------------------------------------------------------------
(* raymath / raylib helpers, as main.c uses them *)

Abs(a) == IF a < 0 THEN -a ELSE a

Min(a, b) == IF a < b THEN a ELSE b

Max(a, b) == IF a > b THEN a ELSE b

Vec(a, b) == [x |-> a, y |-> b]

Vector2Zero == Vec(0, 0)

Vector2Add(a, b) == Vec(a.x + b.x, a.y + b.y)

Vector2Subtract(a, b) == Vec(a.x - b.x, a.y - b.y)

\* sqrtf(x*x + y*y); exact whenever the vector is axis-aligned
Vector2Length(v) ==
    IF v.x = 0 THEN Abs(v.y)
    ELSE IF v.y = 0 THEN Abs(v.x)
    ELSE CHOOSE r \in 0..(Abs(v.x) + Abs(v.y)) :
            r * r <= v.x * v.x + v.y * v.y /\ (r + 1) * (r + 1) > v.x * v.x + v.y * v.y

\* A unit vector is kept as the exact fraction (x/len, y/len).  raymath
\* returns the zero vector for a zero-length argument.
Vector2Normalize(v) ==
    IF Vector2Length(v) > 0
    THEN [x |-> v.x, y |-> v.y, len |-> Vector2Length(v)]
    ELSE [x |-> 0, y |-> 0, len |-> 1]

Vector2Negate(d) == [d EXCEPT !.x = -d.x, !.y = -d.y]

\* Vector2Scale of a unit vector by a length
Vector2Scale(d, s) == Vec((d.x * s) \div d.len, (d.y * s) \div d.len)

\* the sign of Vector2DotProduct(direction, v) is all that main.c reads
Vector2DotProduct(d, v) == d.x * v.x + d.y * v.y

Rectangle(a, b, w, h) == [x |-> a, y |-> b, width |-> w, height |-> h]

\* raylib: touching edges do not collide
CheckCollisionRecs(a, b) ==
    /\ a.x < b.x + b.width
    /\ a.x + a.width > b.x
    /\ a.y < b.y + b.height
    /\ a.y + a.height > b.y

\* get_aabb_mtv keeping the axis of the deeper penetration
get_aabb_mtv_deepest(a, b) ==
    IF ~CheckCollisionRecs(a, b) THEN Vector2Zero
    ELSE LET x_west  == b.x - a.x - a.width
             x_east  == b.x + b.width - a.x
             mx      == IF Abs(x_west) < Abs(x_east) THEN x_west ELSE x_east
             y_south == b.y + b.height - a.y
             y_north == b.y - a.y - a.height
             my      == IF Abs(y_south) < Abs(y_north) THEN y_south ELSE y_north
         IN  IF Abs(mx) < Abs(my) THEN Vec(0, my) ELSE Vec(mx, 0)

get_aabb_mtv(a, b) ==
    IF ~CheckCollisionRecs(a, b) THEN Vector2Zero
    ELSE LET x_west  == b.x - a.x - a.width
             x_east  == b.x + b.width - a.x
             mx      == IF Abs(x_west) < Abs(x_east) THEN x_west ELSE x_east
             y_south == b.y + b.height - a.y
             y_north == b.y - a.y - a.height
             my      == IF Abs(y_south) < Abs(y_north) THEN y_south ELSE y_north
         IN  IF Abs(mx) > Abs(my) THEN Vec(0, my) ELSE Vec(mx, 0)

\* randf_min_max scaling by max instead of by (max - min)
randf_min_max_unscaled(min, max, k) == min + (k * max) \div 4

\* randf() is k/4 for a draw k in 0..4; randf_min_max(min, max) with that draw
randf_min_max(min, max, k) == min + (k * (max - min)) \div 4

---------------------------------------------------------------------------
(* Obstacles (main.c:90-123) *)

ZeroObstacle ==
    [rect |-> Rectangle(0, 0, 0, 0), start |-> Vector2Zero, end |-> Vector2Zero,
     speed |-> 0, is_moving_to_start |-> FALSE, is_player_attached |-> FALSE]

\* spawn_obstacle reusing the last slot when the array is full
spawn_obstacle_overwrite(st, rect, start, end, speed) ==
    LET at == IF st.n = MAX_N_OBSTACLES THEN st.n - 1 ELSE st.n
    IN  [n   |-> at + 1,
         obs |-> [st.obs EXCEPT ![at] =
                     [@ EXCEPT !.rect = rect, !.start = start,
                               !.end = end, !.speed = speed]],
         idx |-> at]

\* st = [n |-> N_OBSTACLES, obs |-> OBSTACLES, idx |-> the last return value].
\* Only rect, start, end and speed of the slot are written: the two flags
\* keep whatever the slot held.
spawn_obstacle(st, rect, start, end, speed) ==
    IF st.n = MAX_N_OBSTACLES THEN [st EXCEPT !.idx = -1]
    ELSE [n   |-> st.n + 1,
          obs |-> [st.obs EXCEPT ![st.n] =
                      [@ EXCEPT !.rect = rect, !.start = start,
                                !.end = end, !.speed = speed]],
          idx |-> st.n]

spawn_static_obstacle(st, rect) ==
    spawn_obstacle(st, rect, Vec(rect.x, rect.y), Vec(rect.x, rect.y), 0)

---------------------------------------------------------------------------
(* load_game (main.c:322-366) *)

\* the platform loop of load_game, from iteration i on; draws[2i+1] and
\* draws[2i+2] are the two randf() results of iteration i
RECURSIVE spawn_platforms(_, _, _)
spawn_platforms(st, i, draws) ==
    IF i = N_PLATFORMS THEN st
    ELSE LET x_min == -150
             x_max == 50
             y     == 80 - i * 80
             x     == randf_min_max(x_min, x_max, draws[2 * i + 1])
             speed == randf_min_max(5, 9, draws[2 * i + 2])
         IN  spawn_platforms(
                 spawn_obstacle(st, Rectangle(x, y, 100, 25),
                                Vec(x_min, y), Vec(x_max, y), speed),
                 i + 1, draws)

\* load_player forgetting the velocity
load_player_keep_velocity(p) ==
    [p EXCEPT !.position = Vector2Zero,
              !.size = Vec(10, 20),
              !.speed = 15,
              !.jump_impulse = 30,
              !.max_health = PLAYER_MAX_HEALTH,
              !.health = PLAYER_MAX_HEALTH]

\* the player fields load_game assigns; is_grounded is not among them
load_player(p) ==
    [p EXCEPT !.position = Vector2Zero,
              !.velocity = Vector2Zero,
              !.size = Vec(10, 20),
              !.speed = 15,
              !.jump_impulse = 30,
              !.max_health = PLAYER_MAX_HEALTH,
              !.health = PLAYER_MAX_HEALTH]

\* N_OBSTACLES = 0, then the four walls and the platforms
load_obstacles(obs, draws) ==
    LET s0 == [n |-> 0, obs |-> obs, idx |-> 0]
        s1 == spawn_static_obstacle(s0, Rectangle(-200, 200, 400, 25))
        s2 == spawn_static_obstacle(s1, Rectangle(-200, -1000, 25, 1200))
        s3 == spawn_static_obstacle(s2, Rectangle(-175, 150, 25, 50))
        s4 == spawn_static_obstacle(s3, Rectangle(175, -1000, 25, 1200))
    IN  spawn_platforms(s4, 0, draws)

---------------------------------------------------------------------------
(* update_obstacles (main.c:189-230) *)

\* move_obstacle without the snap to the endpoint that was reached
move_obstacle_nosnap(o, pos, dt) ==
    IF ~(o.speed > 0) THEN [o |-> o, position |-> pos]
    ELSE LET unit          == Vector2Normalize(Vector2Subtract(o.end, o.start))
             direction     == IF o.is_moving_to_start THEN Vector2Negate(unit) ELSE unit
             position_step == Vector2Scale(direction, dt * o.speed)
             moved         == Vec(o.rect.x + position_step.x, o.rect.y + position_step.y)
             target        == IF o.is_moving_to_start THEN o.start ELSE o.end
             is_to_target  ==
                 Vector2DotProduct(direction, Vector2Subtract(target, moved)) > 0
         IN  [o |-> [o EXCEPT !.rect.x = moved.x, !.rect.y = moved.y,
                              !.is_moving_to_start =
                                  IF is_to_target THEN @ ELSE ~@],
              position |-> IF o.is_player_attached
                           THEN Vector2Add(pos, position_step) ELSE pos]

\* move_obstacle without the skip of the obstacles of speed zero
move_obstacle_noskip(o, pos, dt) ==
    LET unit          == Vector2Normalize(Vector2Subtract(o.end, o.start))
        direction     == IF o.is_moving_to_start THEN Vector2Negate(unit) ELSE unit
        position_step == Vector2Scale(direction, dt * o.speed)
        moved         == Vec(o.rect.x + position_step.x, o.rect.y + position_step.y)
        target        == IF o.is_moving_to_start THEN o.start ELSE o.end
        to_target_direction == Vector2Subtract(target, moved)
        is_to_target  == Vector2DotProduct(direction, to_target_direction) > 0
        at            == IF is_to_target THEN moved ELSE target
    IN  [o |-> [o EXCEPT !.rect.x = at.x, !.rect.y = at.y,
                         !.is_moving_to_start =
                             IF is_to_target THEN @ ELSE ~@],
         position |-> IF o.is_player_attached
                      THEN Vector2Add(pos, position_step) ELSE pos]

\* one iteration of the loop body on obstacle o, with the player position
\* pos as the iterations before it left it
move_obstacle(o, pos, dt) ==
    IF ~(o.speed > 0) THEN [o |-> o, position |-> pos]
    ELSE LET unit          == Vector2Normalize(Vector2Subtract(o.end, o.start))
             direction     == IF o.is_moving_to_start THEN Vector2Negate(unit) ELSE unit
             position_step == Vector2Scale(direction, dt * o.speed)
             moved         == Vec(o.rect.x + position_step.x, o.rect.y + position_step.y)
             target        == IF o.is_moving_to_start THEN o.start ELSE o.end
             to_target_direction == Vector2Subtract(target, moved)
             is_to_target  == Vector2DotProduct(direction, to_target_direction) > 0
             at            == IF is_to_target THEN moved ELSE target
         IN  [o |-> [o EXCEPT !.rect.x = at.x, !.rect.y = at.y,
                              !.is_moving_to_start =
                                  IF is_to_target THEN @ ELSE ~@],
              position |-> IF o.is_player_attached
                           THEN Vector2Add(pos, position_step) ELSE pos]

\* the player translation the iterations i .. n-1 of the loop add up to:
\* the position_step of every attached obstacle among them
RECURSIVE steps_from(_, _, _, _)
steps_from(obs, i, n, dt) ==
    IF i >= n THEN Vector2Zero
    ELSE IF n = i + 1 THEN move_obstacle(obs[i], Vector2Zero, dt).position
    ELSE Vector2Add(steps_from(obs, i, (i + n) \div 2, dt),
                    steps_from(obs, (i + n) \div 2, n, dt))

\* the iterations i .. n-1 of the loop.  Iteration j reads and writes only
\* OBSTACLES[j] and adds its step to PLAYER.position, so the loop is the
\* body applied to every obstacle and the steps summed;
\* st = [obs |-> OBSTACLES, position |-> PLAYER.position]
obstacles_from(st, i, n, dt) ==
    [obs      |-> [j \in DOMAIN st.obs |->
                      IF i <= j /\ j < n
                      THEN move_obstacle(st.obs[j], Vector2Zero, dt).o
                      ELSE st.obs[j]],
     position |-> Vector2Add(st.position, steps_from(st.obs, i, n, dt))]

---------------------------------------------------------------------------
(* Player (main.c:234-313) *)

get_player_rect(p) ==
    Rectangle(p.position.x + p.size.x \div 2, p.position.y + p.size.y,
              p.size.x, p.size.y)

\* integrate turning the held keys into a horizontal velocity
integrate_walk_velocity(p, f) ==
    LET vy        == p.velocity.y + (GRAVITY_ACCELERATION * f.dt) \div 10
        vx        == ((IF f.key_d THEN 1 ELSE 0) - (IF f.key_a THEN 1 ELSE 0)) * p.speed
        velocity  == IF f.key_w /\ p.is_grounded
                     THEN Vec(vx, vy - p.jump_impulse)
                     ELSE Vec(vx, vy)
    IN  [p EXCEPT !.velocity = velocity,
                  !.position = Vector2Add(p.position,
                                          Vec(velocity.x * f.dt, velocity.y * f.dt))]

\* integrate moving the position by the velocity it had before gravity
integrate_explicit(p, f) ==
    LET vy        == p.velocity.y + (GRAVITY_ACCELERATION * f.dt) \div 10
        direction == Vector2Normalize(
                         Vec((IF f.key_d THEN 1 ELSE 0) - (IF f.key_a THEN 1 ELSE 0), 0))
        walk      == Vector2Scale(direction, p.speed * f.dt)
        velocity  == IF f.key_w /\ p.is_grounded
                     THEN Vec(p.velocity.x, vy - p.jump_impulse)
                     ELSE Vec(p.velocity.x, vy)
        position_step == Vector2Add(walk, Vec(p.velocity.x * f.dt, p.velocity.y * f.dt))
    IN  [p EXCEPT !.velocity = velocity,
                  !.position = Vector2Add(p.position, position_step)]

\* update_player with this frame's dt and keys
integrate(p, f) ==
    LET vy        == p.velocity.y + (GRAVITY_ACCELERATION * f.dt) \div 10
        direction == Vector2Normalize(
                         Vec((IF f.key_d THEN 1 ELSE 0) - (IF f.key_a THEN 1 ELSE 0), 0))
        walk      == Vector2Scale(direction, p.speed * f.dt)
        velocity  == IF f.key_w /\ p.is_grounded
                     THEN Vec(p.velocity.x, vy - p.jump_impulse)
                     ELSE Vec(p.velocity.x, vy)
        position_step == Vector2Add(walk, Vec(velocity.x * f.dt, velocity.y * f.dt))
    IN  [p EXCEPT !.velocity = velocity,
                  !.position = Vector2Add(p.position, position_step)]

\* attaches without the test of the obstacle's speed
attaches_any(m, o) == m.y < 0

\* obstacle->is_player_attached = mtv.y < 0.0 && obstacle->speed > 0.0
attaches(m, o) == m.y < 0 /\ o.speed > 0

\* fminf / fmaxf of the MTVs of the obstacles i .. n-1 against player_rect
RECURSIVE extrema_from(_, _, _, _)
extrema_from(obs, i, n, player_rect) ==
    IF i >= n THEN [min_x |-> 0, max_x |-> 0, min_y |-> 0, max_y |-> 0]
    ELSE IF n = i + 1
    THEN LET m == get_aabb_mtv(player_rect, obs[i].rect)
         IN  [min_x |-> Min(0, m.x), max_x |-> Max(0, m.x),
              min_y |-> Min(0, m.y), max_y |-> Max(0, m.y)]
    ELSE LET a == extrema_from(obs, i, (i + n) \div 2, player_rect)
             b == extrema_from(obs, (i + n) \div 2, n, player_rect)
         IN  [min_x |-> Min(a.min_x, b.min_x), max_x |-> Max(a.max_x, b.max_x),
              min_y |-> Min(a.min_y, b.min_y), max_y |-> Max(a.max_y, b.max_y)]

\* collide_from setting the attachment flags without ever clearing them
collide_from_sticky(acc, i, n, player_rect) ==
    LET e == extrema_from(acc.obs, i, n, player_rect)
    IN  [min_x |-> Min(acc.min_x, e.min_x), max_x |-> Max(acc.max_x, e.max_x),
         min_y |-> Min(acc.min_y, e.min_y), max_y |-> Max(acc.max_y, e.max_y),
         obs   |-> [j \in DOMAIN acc.obs |->
                       IF i <= j /\ j < n
                       THEN [acc.obs[j] EXCEPT !.is_player_attached =
                                @ \/ attaches(get_aabb_mtv(player_rect, acc.obs[j].rect),
                                              acc.obs[j])]
                       ELSE acc.obs[j]]]

\* the iterations i .. n-1 of the per-obstacle pass of
\* update_player_collisions.  player_rect does not change during the pass
\* and iteration j writes only OBSTACLES[j].is_player_attached, so the pass
\* is the extrema of the MTVs and the flag of every obstacle;
\* acc = [min_x, max_x, min_y, max_y, obs]
collide_from(acc, i, n, player_rect) ==
    LET e == extrema_from(acc.obs, i, n, player_rect)
    IN  [min_x |-> Min(acc.min_x, e.min_x), max_x |-> Max(acc.max_x, e.max_x),
         min_y |-> Min(acc.min_y, e.min_y), max_y |-> Max(acc.max_y, e.max_y),
         obs   |-> [j \in DOMAIN acc.obs |->
                       IF i <= j /\ j < n
                       THEN [acc.obs[j] EXCEPT !.is_player_attached =
                                attaches(get_aabb_mtv(player_rect, acc.obs[j].rect),
                                         acc.obs[j])]
                       ELSE acc.obs[j]]]

collision_pass(p, obs, n) ==
    collide_from([min_x |-> 0, max_x |-> 0, min_y |-> 0, max_y |-> 0, obs |-> obs],
                 0, n, get_player_rect(p))

\* combined_mtv without the override by the larger maximum
combined_mtv_min(acc) == Vec(acc.min_x, acc.min_y)

\* the combined correction built from the four extrema
combined_mtv(acc) ==
    Vec(IF Abs(acc.max_x) > Abs(acc.min_x) THEN acc.max_x ELSE acc.min_x,
        IF Abs(acc.max_y) > Abs(acc.min_y) THEN acc.max_y ELSE acc.min_y)

\* landing_damage without the clamp at zero
landing_damage_unclamped(velocity) ==
    Vector2Length(velocity) - MAX_SPEED_WITHOUT_DAMAGE

landing_damage(velocity) ==
    LET damage == Vector2Length(velocity) - MAX_SPEED_WITHOUT_DAMAGE
    IN  IF damage < 0 THEN 0 ELSE damage

\* resolve clearing is_grounded when the player bumps into a ceiling
resolve_ceiling_ungrounds(p, m) ==
    LET q == [p EXCEPT !.position = Vector2Add(p.position, m)]
    IN  IF m.y < 0 /\ p.velocity.y > 0
        THEN [q EXCEPT !.health = @ - landing_damage(p.velocity),
                       !.velocity = Vector2Zero,
                       !.is_grounded = TRUE]
        ELSE IF m.y > 0 /\ p.velocity.y < 0
        THEN [q EXCEPT !.velocity.y = 0, !.is_grounded = FALSE]
        ELSE [q EXCEPT !.is_grounded = FALSE]

\* resolve adding the landing damage to the health
resolve_adds_damage(p, m) ==
    LET q == [p EXCEPT !.position = Vector2Add(p.position, m)]
    IN  IF m.y < 0 /\ p.velocity.y > 0
        THEN [q EXCEPT !.health = p.health + landing_damage(p.velocity),
                       !.velocity = Vector2Zero,
                       !.is_grounded = TRUE]
        ELSE IF m.y > 0 /\ p.velocity.y < 0
        THEN [q EXCEPT !.velocity.y = 0]
        ELSE [q EXCEPT !.is_grounded = FALSE]

\* resolve forgetting to take the landing damage off the health
resolve_no_damage(p, m) ==
    LET q == [p EXCEPT !.position = Vector2Add(p.position, m)]
    IN  IF m.y < 0 /\ p.velocity.y > 0
        THEN [q EXCEPT !.velocity = Vector2Zero,
                       !.is_grounded = TRUE]
        ELSE IF m.y > 0 /\ p.velocity.y < 0
        THEN [q EXCEPT !.velocity.y = 0]
        ELSE [q EXCEPT !.is_grounded = FALSE]

\* the state derivation after the correction m has been added
resolve(p, m) ==
    LET q == [p EXCEPT !.position = Vector2Add(p.position, m)]
    IN  IF m.y < 0 /\ p.velocity.y > 0
        THEN [q EXCEPT !.health = @ - landing_damage(p.velocity),
                       !.velocity = Vector2Zero,
                       !.is_grounded = TRUE]
        ELSE IF m.y > 0 /\ p.velocity.y < 0
        THEN [q EXCEPT !.velocity.y = 0]
        ELSE [q EXCEPT !.is_grounded = FALSE]

---------------------------------------------------------------------------
(* Bounds of the model *)

\* frames the main loop runs
MaxFrames == 3

\* GetFrameTime() values, in tenths of a second
DtSet == {2, 3}

\* the key states of a frame: IsKeyDown(KEY_A), IsKeyDown(KEY_D),
\* IsKeyPressed(KEY_W), IsKeyPressed(KEY_R)
Frame(dt, a, d, w, r) == [dt |-> dt, key_a |-> a, key_d |-> d, key_w |-> w, key_r |-> r]

Inputs ==
    {Frame(dt, k[1], k[2], k[3], k[4]) :
        dt \in DtSet,
        k \in {<<FALSE, FALSE, FALSE, FALSE>>, <<TRUE, FALSE, FALSE, FALSE>>,
               <<FALSE, TRUE, FALSE, FALSE>>, <<FALSE, FALSE, TRUE, FALSE>>,
               <<FALSE, FALSE, FALSE, TRUE>>, <<FALSE, FALSE, TRUE, TRUE>>}}

\* the randf() results of one load_game call: twenty draws k (k/4 each)
Stream(a, b) == [i \in 1..(2 * N_PLATFORMS) |-> (a + b * i) % 5]

RandStreams == {Stream(0, 0), Stream(2, 0), Stream(4, 1)}

---------------------------------------------------------------------------
(* The program as a state machine *)

ZeroPlayer ==
    [position |-> Vector2Zero, velocity |-> Vector2Zero, size |-> Vector2Zero,
     speed |-> 0, jump_impulse |-> 0, health |-> 0, max_health |-> 0,
     is_grounded |-> FALSE]

NoResolution == [mtv |-> Vector2Zero, speed |-> 0, damage |-> 0, branch |-> "none"]

\* what the spec calls the spawn configuration of the obstacles
Level(obs, n) ==
    [i \in 0..(n - 1) |-> [rect |-> obs[i].rect, start |-> obs[i].start,
                           end |-> obs[i].end, speed |-> obs[i].speed]]

\* load(): the zero-initialised statics, then the first load_game
load(streams) ==
    \E draws \in streams :
        LET st == load_obstacles([i \in 0..(MAX_N_OBSTACLES - 1) |-> ZeroObstacle], draws)
        IN  /\ PLAYER = load_player(ZeroPlayer)
            /\ N_OBSTACLES = st.n
            /\ OBSTACLES = st.obs
            /\ first_level = Level(st.obs, st.n)
            /\ pc = "poll"
            /\ frame = Frame(0, FALSE, FALSE, FALSE, FALSE)
            /\ nframes = 0
            /\ resolved = NoResolution
            /\ r1 = Rectangle(0, 0, 0, 0)
            /\ r2 = Rectangle(0, 0, 0, 0)
            /\ mtv = Vector2Zero
            /\ idx = 0
            /\ CAMERA = [target |-> Vector2Zero]

Init == load(RandStreams)

\* one iteration of the loop of main: raylib fixes the frame time and the
\* key states for the frame, then update() runs
poll_input(inputs, limit) ==
    /\ pc = "poll"
    /\ nframes < limit
    /\ \E f \in inputs : frame' = f
    /\ nframes' = nframes + 1
    /\ pc' = "update_reset"
    /\ UNCHANGED <<PLAYER, N_OBSTACLES, OBSTACLES, resolved, first_level, r1, r2, mtv, idx, CAMERA>>

update_reset(streams) ==
    /\ pc = "update_reset"
    /\ pc' = "update_player"
    /\ \/ /\ frame.key_r
          /\ \E draws \in streams :
                LET st == load_obstacles(OBSTACLES, draws)
                IN  /\ PLAYER' = load_player(PLAYER)
                    /\ N_OBSTACLES' = st.n
                    /\ OBSTACLES' = st.obs
       \/ /\ ~frame.key_r
          /\ UNCHANGED <<PLAYER, N_OBSTACLES, OBSTACLES>>
    /\ UNCHANGED <<frame, nframes, resolved, first_level, r1, r2, mtv, idx, CAMERA>>

update_player ==
    /\ pc = "update_player"
    /\ pc' = "update_obstacles"
    /\ PLAYER' = integrate(PLAYER, frame)
    /\ UNCHANGED <<N_OBSTACLES, OBSTACLES, frame, nframes, resolved, first_level,
                   r1, r2, mtv, idx, CAMERA>>

update_obstacles ==
    /\ pc = "update_obstacles"
    /\ pc' = "update_player_collisions"
    /\ LET st == obstacles_from([obs |-> OBSTACLES, position |-> PLAYER.position],
                                0, N_OBSTACLES, frame.dt)
       IN  /\ OBSTACLES' = st.obs
           /\ PLAYER' = [PLAYER EXCEPT !.position = st.position]
    /\ UNCHANGED <<N_OBSTACLES, frame, nframes, resolved, first_level, r1, r2, mtv, idx, CAMERA>>

update_player_collisions ==
    /\ pc = "update_player_collisions"
    /\ pc' = "update_camera"
    /\ LET acc == collision_pass(PLAYER, OBSTACLES, N_OBSTACLES)
           m   == combined_mtv(acc)
           hit == m.y < 0 /\ PLAYER.velocity.y > 0
       IN  /\ OBSTACLES' = acc.obs
           /\ PLAYER' = resolve(PLAYER, m)
           /\ resolved' =
                 [mtv    |-> m,
                  speed  |-> IF hit THEN Vector2Length(PLAYER.velocity) ELSE 0,
                  damage |-> IF hit THEN landing_damage(PLAYER.velocity) ELSE 0,
                  branch |-> IF hit THEN "landing"
                             ELSE IF m.y > 0 /\ PLAYER.velocity.y < 0 THEN "ceiling"
                             ELSE "airborne"]
    /\ UNCHANGED <<N_OBSTACLES, frame, nframes, first_level, r1, r2, mtv, idx, CAMERA>>

\* camera_step going the whole way to the player
camera_step_whole(position, target) ==
    Vector2Subtract(Vec(position.x * CamScale, position.y * CamScale), target)

\* update_camera: direction * (0.1 * distance), with direction the unit
\* vector of PLAYER.position - CAMERA.target and distance its length, is a
\* tenth of that difference
camera_step(position, target) ==
    LET difference == Vector2Subtract(Vec(position.x * CamScale, position.y * CamScale),
                                      target)
    IN  Vec(difference.x \div 10, difference.y \div 10)

update_camera ==
    /\ pc = "update_camera"
    /\ pc' = "poll"
    /\ CAMERA' = [CAMERA EXCEPT !.target =
                      Vector2Add(@, camera_step(PLAYER.position, CAMERA.target))]
    /\ UNCHANGED <<PLAYER, N_OBSTACLES, OBSTACLES, frame, nframes, resolved,
                   first_level, r1, r2, mtv, idx>>

Next ==
    \/ poll_input(Inputs, MaxFrames)
    \/ update_reset(RandStreams)
    \/ update_player
    \/ update_obstacles
    \/ update_player_collisions
    \/ update_camera

Spec == Init /\ [][Next]_vars

---------------------------------------------------------------------------
(* One long play session: the level with every platform drawn at the middle
   of its range, and a recorded sequence of frames <<dt, A, D, W>> that climbs
   to the top platform and drops to the ground, twice.  At the frames of
   PlayResets the player may also press R. *)

PlayStream == Stream(2, 0)

PlayScript ==
    <<
      <<2, 0, 0, 0>>, <<2, 0, 0, 0>>, <<2, 0, 0, 1>>, <<5, 0, 1, 1>>, <<2, 0, 0, 0>>, <<2, 0, 0, 1>>,
      <<5, 1, 0, 1>>, <<2, 0, 0, 0>>, <<2, 0, 0, 1>>, <<5, 0, 0, 1>>, <<2, 0, 0, 0>>, <<2, 0, 0, 1>>,
      <<5, 1, 0, 1>>, <<2, 0, 0, 0>>, <<2, 0, 0, 1>>, <<5, 0, 0, 1>>, <<2, 0, 0, 0>>, <<2, 0, 0, 1>>,
      <<5, 0, 1, 1>>, <<2, 0, 0, 0>>, <<2, 0, 0, 1>>, <<5, 0, 0, 1>>, <<2, 0, 0, 0>>, <<2, 1, 0, 1>>,
      <<5, 0, 1, 1>>, <<2, 0, 0, 0>>, <<2, 0, 0, 1>>, <<5, 1, 0, 1>>, <<2, 0, 0, 0>>, <<2, 1, 0, 0>>,
      <<1, 0, 0, 0>>, <<1, 0, 0, 0>>, <<1, 0, 0, 0>>, <<1, 1, 0, 0>>, <<1, 0, 0, 0>>, <<1, 0, 0, 0>>,
      <<1, 0, 0, 0>>, <<1, 1, 0, 0>>, <<1, 0, 0, 0>>, <<1, 0, 0, 0>>, <<1, 0, 0, 0>>, <<1, 0, 0, 0>>,
      <<1, 0, 0, 0>>, <<1, 0, 0, 0>>, <<1, 0, 0, 0>>, <<1, 0, 0, 0>>, <<1, 0, 0, 1>>, <<2, 0, 0, 0>>,
      <<1, 0, 0, 0>>, <<2, 1, 0, 0>>, <<2, 1, 0, 0>>, <<1, 0, 1, 1>>, <<2, 0, 1, 0>>, <<2, 0, 1, 0>>,
      <<2, 0, 1, 0>>, <<2, 0, 0, 1>>, <<5, 0, 1, 1>>, <<2, 0, 0, 0>>, <<2, 0, 0, 1>>, <<5, 0, 0, 1>>,
      <<2, 0, 0, 0>>, <<2, 0, 0, 1>>, <<5, 0, 0, 1>>, <<2, 0, 0, 0>>, <<2, 0, 0, 1>>, <<5, 1, 0, 1>>,
      <<2, 0, 0, 0>>, <<2, 0, 0, 1>>, <<5, 0, 0, 1>>, <<2, 0, 0, 0>>, <<2, 0, 0, 1>>, <<5, 0, 0, 1>>,
      <<2, 0, 0, 0>>, <<2, 0, 0, 1>>, <<5, 0, 1, 1>>, <<2, 0, 0, 0>>, <<2, 0, 0, 1>>, <<5, 0, 0, 1>>,
      <<2, 0, 0, 0>>, <<2, 0, 1, 1>>, <<5, 0, 0, 1>>, <<2, 0, 0, 0>>, <<2, 1, 0, 0>>, <<1, 0, 0, 0>>,
      <<1, 0, 0, 0>>, <<1, 0, 0, 0>>, <<1, 1, 0, 0>>, <<1, 0, 0, 0>>, <<1, 0, 0, 0>>, <<1, 0, 0, 0>>,
      <<1, 1, 0, 0>>, <<1, 0, 0, 0>>, <<1, 0, 0, 0>>, <<1, 0, 0, 0>>, <<1, 0, 0, 0>>, <<1, 0, 0, 0>>,
      <<1, 0, 0, 0>>, <<1, 0, 0, 0>>, <<1, 0, 0, 0>>
    >>

\* the frames at which R may be pressed: the first one, the one on the top
\* platform and the one after the first hard landing
PlayResets == {1, 30, 47}

\* the inputs the session offers at the coming frame
PlayInputs ==
    LET s == PlayScript[nframes + 1]
    IN  {Frame(s[1], s[2] = 1, s[3] = 1, s[4] = 1, r) :
            r \in IF nframes + 1 \in PlayResets THEN BOOLEAN ELSE {FALSE}}

InitPlay == load({PlayStream})

NextPlay ==
    \/ poll_input(PlayInputs, Len(PlayScript))
    \/ update_reset({PlayStream})
    \/ update_player
    \/ update_obstacles
    \/ update_player_collisions
    \/ update_camera

SpecPlay == InitPlay /\ [][NextPlay]_vars

---------------------------------------------------------------------------
(* Level authoring: a caller that spawns obstacles of its own between the
   frames of the main loop, starting from an obstacle array that already
   holds some static obstacles. *)

\* calls (spawns and frames) the caller makes
MaxCalls == 4

\* the array after k spawn_static_obstacle calls on the zero-initialised
\* statics: slot i is what the call made at count i wrote
prefill(k) ==
    LET zero == [i \in 0..(MAX_N_OBSTACLES - 1) |-> ZeroObstacle]
    IN  [n   |-> k,
         idx |-> k - 1,
         obs |-> [i \in 0..(MAX_N_OBSTACLES - 1) |->
                    IF i < k
                    THEN spawn_static_obstacle([n |-> i, obs |-> zero, idx |-> 0],
                                               Rectangle(-200, 200, 400, 25)).obs[i]
                    ELSE ZeroObstacle]]

\* how many obstacles the array holds when the caller starts
Prefills == {0, MAX_N_OBSTACLES - 1, MAX_N_OBSTACLES}

\* the spawn_obstacle arguments the caller uses: a platform patrolling under
\* the player, two with start = end (rect at start, rect away from start)
\* and a motionless one
SpawnArgs ==
    {[rect |-> Rectangle(-20, 45, 60, 25), start |-> Vec(-20, 45), end |-> Vec(-5, 45), speed |-> 5],
     [rect |-> Rectangle(-20, 45, 60, 25), start |-> Vec(-20, 45), end |-> Vec(-20, 45), speed |-> 5],
     [rect |-> Rectangle(-50, 45, 60, 25), start |-> Vec(-20, 45), end |-> Vec(-20, 45), speed |-> 5],
     [rect |-> Rectangle(-20, 45, 60, 25), start |-> Vec(-20, 45), end |-> Vec(-5, 45), speed |-> 0]}

SpawnInputs == {Frame(2, FALSE, FALSE, FALSE, r) : r \in BOOLEAN}

InitSpawn ==
    \E k \in Prefills :
        LET st == prefill(k)
        IN  /\ PLAYER = load_player(ZeroPlayer)
            /\ N_OBSTACLES = st.n
            /\ OBSTACLES = st.obs
            /\ first_level = Level(st.obs, st.n)
            /\ pc = "poll"
            /\ frame = Frame(0, FALSE, FALSE, FALSE, FALSE)
            /\ nframes = 0
            /\ resolved = NoResolution
            /\ r1 = Rectangle(0, 0, 0, 0)
            /\ r2 = Rectangle(0, 0, 0, 0)
            /\ mtv = Vector2Zero
            /\ idx = 0
            /\ CAMERA = [target |-> Vector2Zero]

call_spawn_obstacle ==
    /\ pc = "poll"
    /\ nframes < MaxCalls
    /\ \E a \in SpawnArgs :
          LET st == spawn_obstacle([n |-> N_OBSTACLES, obs |-> OBSTACLES, idx |-> idx],
                                   a.rect, a.start, a.end, a.speed)
          IN  /\ N_OBSTACLES' = st.n
              /\ OBSTACLES' = st.obs
              /\ idx' = st.idx
    /\ nframes' = nframes + 1
    /\ UNCHANGED <<PLAYER, pc, frame, resolved, first_level, r1, r2, mtv, CAMERA>>

call_spawn_static_obstacle ==
    /\ pc = "poll"
    /\ nframes < MaxCalls
    /\ LET st == spawn_static_obstacle([n |-> N_OBSTACLES, obs |-> OBSTACLES, idx |-> idx],
                                       Rectangle(-20, 45, 60, 25))
       IN  /\ N_OBSTACLES' = st.n
           /\ OBSTACLES' = st.obs
           /\ idx' = st.idx
    /\ nframes' = nframes + 1
    /\ UNCHANGED <<PLAYER, pc, frame, resolved, first_level, r1, r2, mtv, CAMERA>>

NextSpawn ==
    \/ call_spawn_obstacle
    \/ call_spawn_static_obstacle
    \/ poll_input(SpawnInputs, MaxCalls)
    \/ update_reset({PlayStream})
    \/ update_player
    \/ update_obstacles
    \/ update_player_collisions
    \/ update_camera

SpecSpawn == InitSpawn /\ [][NextSpawn]_vars

---------------------------------------------------------------------------
(* Free fall: update_player called alone, with no obstacles, on the player
   load_game leaves at rest at (0, 0), in equal ticks that add up to one
   second; A and D may be held. *)

\* the numbers of ticks the second is cut into
FallTicks == {1, 2, 5, 10}

InitFall ==
    \E n \in FallTicks :
        /\ PLAYER = load_player(ZeroPlayer)
        /\ N_OBSTACLES = 0
        /\ OBSTACLES = [i \in 0..(MAX_N_OBSTACLES - 1) |-> ZeroObstacle]
        /\ first_level = Level(OBSTACLES, 0)
        /\ pc = "fall"
        /\ frame = Frame(10 \div n, FALSE, FALSE, FALSE, FALSE)
        /\ nframes = 0
        /\ resolved = NoResolution
        /\ r1 = Rectangle(0, 0, 0, 0)
        /\ r2 = Rectangle(0, 0, 0, 0)
        /\ mtv = Vector2Zero
        /\ idx = 0
        /\ CAMERA = [target |-> Vector2Zero]

call_update_player ==
    /\ pc = "fall"
    /\ nframes * frame.dt < 10
    /\ \E a \in BOOLEAN, d \in BOOLEAN :
          /\ frame' = Frame(frame.dt, a, d, FALSE, FALSE)
          /\ PLAYER' = integrate(PLAYER, frame')
    /\ nframes' = nframes + 1
    /\ UNCHANGED <<N_OBSTACLES, OBSTACLES, pc, resolved, first_level,
                   r1, r2, mtv, idx, CAMERA>>

NextFall == call_update_player

SpecFall == InitFall /\ [][NextFall]_vars

---------------------------------------------------------------------------
(* get_aabb_mtv called directly on rectangles drawn from a bounded grid *)

\* largest x and y of a drawn rectangle
MaxCoord == 3

\* largest width and height of a drawn rectangle
MaxSize == 2

Rects ==
    {Rectangle(a, b, w, h) : a \in 0..MaxCoord, b \in 0..MaxCoord,
                             w \in 0..MaxSize, h \in 0..MaxSize}

InitMTV ==
    /\ PLAYER = ZeroPlayer
    /\ N_OBSTACLES = 0
    /\ OBSTACLES = [i \in 0..(MAX_N_OBSTACLES - 1) |-> ZeroObstacle]
    /\ first_level = Level(OBSTACLES, 0)
    /\ pc = "call"
    /\ frame = Frame(0, FALSE, FALSE, FALSE, FALSE)
    /\ nframes = 0
    /\ resolved = NoResolution
    /\ r1 \in Rects
    /\ r2 \in Rects
    /\ mtv = Vector2Zero
    /\ idx = 0
    /\ CAMERA = [target |-> Vector2Zero]

call_get_aabb_mtv ==
    /\ pc = "call"
    /\ pc' = "return"
    /\ mtv' = get_aabb_mtv(r1, r2)
    /\ UNCHANGED <<PLAYER, N_OBSTACLES, OBSTACLES, frame, nframes, resolved,
                   first_level, r1, r2, idx, CAMERA>>

NextMTV == call_get_aabb_mtv

SpecMTV == InitMTV /\ [][NextMTV]_vars

---------------------------------------------------------------------------
(* Claims *)

\* p lies on the closed segment [a, b]
OnSegment(p, a, b) ==
    /\ (p.x - a.x) * (b.y - a.y) = (p.y - a.y) * (b.x - a.x)
    /\ Min(a.x, b.x) <= p.x /\ p.x <= Max(a.x, b.x)
    /\ Min(a.y, b.y) <= p.y /\ p.y <= Max(a.y, b.y)

\* C1: every obstacle with speed > 0 has its rect position on the closed
\* segment [start, end] in every reachable state, in particular at the end
\* of every update_obstacles call, whatever the frame times and resets.
C1_PatrolBounded ==
    \A i \in 0..(N_OBSTACLES - 1) :
        OBSTACLES[i].speed > 0 =>
            OnSegment(Vec(OBSTACLES[i].rect.x, OBSTACLES[i].rect.y),
                      OBSTACLES[i].start, OBSTACLES[i].end)

\* C1 witness: update_obstacles has just returned and a platform that was
\* spawned away from its end point has travelled there, been snapped to it
\* and turned around.
C1_Witness ==
    /\ pc = "update_player_collisions"
    /\ \E i \in 0..(N_OBSTACLES - 1) :
          /\ OBSTACLES[i].speed > 0
          /\ OBSTACLES[i].is_moving_to_start
          /\ OBSTACLES[i].rect.x = OBSTACLES[i].end.x
          /\ first_level[i].rect.x < OBSTACLES[i].end.x
          /\ first_level[i].speed = OBSTACLES[i].speed

\* C2 (as stated): the player's health stays within [0, max_health] in every
\* reachable state.
C2_HealthInRange == 0 <= PLAYER.health /\ PLAYER.health <= PLAYER.max_health

\* C2 (amended): the player's health never exceeds max_health; it has no
\* lower bound, because landing damage is subtracted without a clamp.
C2_HealthAtMostMax == PLAYER.health <= PLAYER.max_health

\* a damaging landing has just taken the health below zero
C2_Witness ==
    /\ pc = "poll"
    /\ resolved.branch = "landing"
    /\ resolved.damage > 0
    /\ PLAYER.health < 0
    /\ PLAYER.health <= PLAYER.max_health

\* C3: health never rises except in a load_game call: every step of a tick
\* other than a reset leaves PLAYER.health equal or lower.
C3_HealthNonIncreasing ==
    [][PLAYER'.health > PLAYER.health => (pc = "update_reset" /\ frame.key_r)]_vars

\* C3 witness: a tick without reset has lowered the health by the damage of
\* a hard landing.
C3_Witness ==
    /\ pc = "poll"
    /\ ~frame.key_r
    /\ resolved.damage > 0
    /\ PLAYER.health < PLAYER.max_health

OnSurface ==
    \E i \in 0..(N_OBSTACLES - 1) :
        /\ get_player_rect(PLAYER).y + get_player_rect(PLAYER).height = OBSTACLES[i].rect.y
        /\ get_player_rect(PLAYER).x < OBSTACLES[i].rect.x + OBSTACLES[i].rect.width
        /\ get_player_rect(PLAYER).x + get_player_rect(PLAYER).width > OBSTACLES[i].rect.x

\* C5: update_player takes jump_impulse off velocity.y only when the player
\* rests on a surface: a jump press in mid-air never changes the velocity.
C5_JumpOnlyFromSurface ==
    [][(/\ pc = "update_player"
        /\ PLAYER'.velocity.y
              # PLAYER.velocity.y + (GRAVITY_ACCELERATION * frame.dt) \div 10)
       => OnSurface]_vars

\* the combined correction update_player_collisions is about to apply
PendingMtv == combined_mtv(collision_pass(PLAYER, OBSTACLES, N_OBSTACLES))

\* C6: a collision resolution with mtv.y < 0 and velocity.y > 0 lowers the
\* health by exactly max(0, |velocity| - MAX_SPEED_WITHOUT_DAMAGE), zeroes
\* the velocity and sets is_grounded; an impact at exactly
\* MAX_SPEED_WITHOUT_DAMAGE costs nothing, a vertical one at
\* MAX_SPEED_WITHOUT_DAMAGE + 10 costs 10.
C6_HardLanding ==
    [][(/\ pc = "update_player_collisions"
        /\ PendingMtv.y < 0
        /\ PLAYER.velocity.y > 0)
       => LET v      == PLAYER.velocity
              speed2 == v.x * v.x + v.y * v.y
              lost   == PLAYER.health - PLAYER'.health
          IN  /\ lost >= 0
              /\ lost = 0 => speed2 <= MAX_SPEED_WITHOUT_DAMAGE * MAX_SPEED_WITHOUT_DAMAGE
              /\ lost > 0 => (lost + MAX_SPEED_WITHOUT_DAMAGE)
                               * (lost + MAX_SPEED_WITHOUT_DAMAGE) = speed2
              /\ v = Vec(0, MAX_SPEED_WITHOUT_DAMAGE) => lost = 0
              /\ v = Vec(0, MAX_SPEED_WITHOUT_DAMAGE + 10) => lost = 10
              /\ PLAYER'.velocity = Vector2Zero
              /\ PLAYER'.is_grounded]_vars

\* C6 witness: a hard landing above the threshold has just been resolved.
C6_Witness ==
    /\ pc = "poll"
    /\ resolved.branch = "landing"
    /\ resolved.speed > MAX_SPEED_WITHOUT_DAMAGE
    /\ resolved.damage = resolved.speed - MAX_SPEED_WITHOUT_DAMAGE
    /\ PLAYER.health = PLAYER.max_health - resolved.damage
    /\ PLAYER.velocity = Vector2Zero
    /\ PLAYER.is_grounded

\* load_game has just returned: the first load, or a reset this frame
AfterLoad ==
    \/ nframes = 0
    \/ pc = "update_player" /\ frame.key_r

\* C7: right after load_game the player has full health, zero velocity and
\* position (0, 0).
C7_ResetRestoresPlayer ==
    AfterLoad =>
        /\ PLAYER.health = PLAYER.max_health
        /\ PLAYER.velocity = Vector2Zero
        /\ PLAYER.position = Vector2Zero

\* C7 witness: a reset taken after the player had fallen and landed.
C7_Witness ==
    /\ pc = "update_player"
    /\ frame.key_r
    /\ resolved.branch = "landing"
    /\ PLAYER.position = Vector2Zero
    /\ PLAYER.health = PLAYER.max_health

\* C8: right after load_game is_grounded is false.
C8_ResetClearsGrounded ==
    AfterLoad => ~PLAYER.is_grounded

\* C9 as claimed: right after load_game the obstacles are those of the first
\* load: same count and, per index, same rect, start, end and speed.
C9_ResetRestoresLevel ==
    AfterLoad => Level(OBSTACLES, N_OBSTACLES) = first_level

\* C9 amended: right after load_game the count, and per index the start, the
\* end, the rect size and rect.y are those of the first load; the static
\* obstacles are the same in rect and speed; every platform has its rect.x
\* within [start.x, end.x] and its speed within [5, 9], both drawn anew.
C9_ResetRestoresLayout ==
    AfterLoad =>
        /\ DOMAIN first_level = 0..(N_OBSTACLES - 1)
        /\ \A i \in 0..(N_OBSTACLES - 1) :
              LET o == OBSTACLES[i]
                  f == first_level[i]
              IN  /\ o.start = f.start /\ o.end = f.end
                  /\ o.rect.y = f.rect.y
                  /\ o.rect.width = f.rect.width /\ o.rect.height = f.rect.height
                  /\ f.speed = 0 => (o.speed = 0 /\ o.rect = f.rect)
                  /\ f.speed > 0 =>
                        /\ 5 <= o.speed /\ o.speed <= 9
                        /\ o.start.x <= o.rect.x /\ o.rect.x <= o.end.x

\* C9 witness: a reset whose draws differ from those of the first load.
C9_Witness ==
    /\ pc = "update_player"
    /\ frame.key_r
    /\ Level(OBSTACLES, N_OBSTACLES) # first_level

\* the interiors of a and b intersect (touching edges do not count)
Overlaps(a, b) ==
    /\ a.x < b.x + b.width /\ b.x < a.x + a.width
    /\ a.y < b.y + b.height /\ b.y < a.y + a.height

\* a and b share at least a boundary point
Meets(a, b) ==
    /\ a.x <= b.x + b.width /\ b.x <= a.x + a.width
    /\ a.y <= b.y + b.height /\ b.y <= a.y + a.height

Translated(a, v) == [a EXCEPT !.x = @ + v.x, !.y = @ + v.y]

\* the smallest of the west, east, south and north penetration depths
LeastDepth(a, b) ==
    Min(Min(a.x + a.width - b.x, b.x + b.width - a.x),
        Min(b.y + b.height - a.y, a.y + a.height - b.y))

\* C10: get_aabb_mtv(r1, r2) is (0, 0) when r1 and r2 do not overlap; when
\* they overlap it has exactly one nonzero component, moving r1 by it leaves
\* the two touching and not overlapping, and its magnitude is the smallest of
\* the four penetration depths.
C10_MtvContract ==
    pc = "return" =>
        /\ ~Overlaps(r1, r2) => mtv = Vector2Zero
        /\ Overlaps(r1, r2) =>
              /\ (mtv.x = 0) # (mtv.y = 0)
              /\ ~Overlaps(Translated(r1, mtv), r2)
              /\ Meets(Translated(r1, mtv), r2)
              /\ Abs(mtv.x) + Abs(mtv.y) = LeastDepth(r1, r2)

\* C10 witness: a call on overlapping rectangles whose shallowest escape is
\* vertical has returned a pure y correction.
C10_Witness ==
    /\ pc = "return"
    /\ Overlaps(r1, r2)
    /\ mtv.x = 0
    /\ mtv.y # 0
    /\ ~Overlaps(Translated(r1, mtv), r2)

\* a direct spawn call has just been made
SpawnStep == pc = "poll" /\ pc' = "poll" /\ nframes' # nframes

\* C11: a spawn on a full array returns -1 and leaves N_OBSTACLES and every
\* stored obstacle unchanged; any other spawn returns the count before the
\* call and raises the count by one (touching no other slot); the count
\* stays within 0..MAX_N_OBSTACLES.
C11_SpawnCapacity ==
    [][/\ 0 <= N_OBSTACLES' /\ N_OBSTACLES' <= MAX_N_OBSTACLES
       /\ SpawnStep =>
             IF N_OBSTACLES = MAX_N_OBSTACLES
             THEN /\ idx' = -1
                  /\ N_OBSTACLES' = N_OBSTACLES
                  /\ OBSTACLES' = OBSTACLES
             ELSE /\ idx' = N_OBSTACLES
                  /\ N_OBSTACLES' = N_OBSTACLES + 1
                  /\ \A j \in 0..(MAX_N_OBSTACLES - 1) :
                        j # N_OBSTACLES => OBSTACLES'[j] = OBSTACLES[j]]_vars

\* C11 witness: a spawn on the full array has been rejected, after one that
\* filled the last slot.
C11_Witness ==
    /\ pc = "poll"
    /\ nframes > 1
    /\ idx = -1
    /\ N_OBSTACLES = MAX_N_OBSTACLES
    /\ OBSTACLES[MAX_N_OBSTACLES - 1].speed = 5

\* one second of free fall has been simulated
FallDone == pc = "fall" /\ nframes > 0 /\ nframes * frame.dt = 10

\* C12 (as stated): after one second of free fall from rest, in one tick or
\* in any number of equal ticks, velocity.y is GRAVITY_ACCELERATION * 1 and
\* position.y is 0.5 * GRAVITY_ACCELERATION * 1^2 (25 units, 250 tenths).
C12_FreeFall ==
    FallDone =>
        /\ PLAYER.velocity.y = GRAVITY_ACCELERATION
        /\ PLAYER.position.y = (GRAVITY_ACCELERATION * 10) \div 2

\* C12 (amended): after one second of free fall from rest in n equal ticks,
\* velocity.y is GRAVITY_ACCELERATION * 1 and position.y is
\* 0.5 * GRAVITY_ACCELERATION * (1 + 1/n): each tick moves the position by
\* the velocity that already includes the tick's gravity.
C12_FreeFallEuler ==
    FallDone =>
        /\ PLAYER.velocity.y = GRAVITY_ACCELERATION
        /\ nframes * PLAYER.position.y
              = ((GRAVITY_ACCELERATION * 10) \div 2) * (nframes + 1)

\* C12 witness: the second has been simulated in ten ticks of 0.1 s and
\* the player is 27.5 units down, not 25.
C12_Witness ==
    /\ FallDone
    /\ nframes = 10
    /\ PLAYER.velocity.y = GRAVITY_ACCELERATION
    /\ PLAYER.position.y = 275

\* update_player_collisions of some tick has returned and the next tick has
\* not begun
EndOfTick == nframes > 0 /\ pc \in {"update_camera", "poll"}

\* C13: at the end of every tick, is_grounded implies that this tick's
\* combined correction had mtv.y < 0; the flag is never a leftover of an
\* earlier tick.
C13_GroundedMeansSupported ==
    (EndOfTick /\ PLAYER.is_grounded) => resolved.mtv.y < 0

\* C15: a collision resolution that is not a hard landing and has mtv.y > 0
\* and velocity.y < 0 zeroes velocity.y and leaves velocity.x, health and
\* is_grounded as they were; one that is neither clears is_grounded and
\* leaves velocity and health as they were.
C15_CeilingBump ==
    [][pc = "update_player_collisions" =>
          LET m       == PendingMtv
              landing == m.y < 0 /\ PLAYER.velocity.y > 0
              ceiling == m.y > 0 /\ PLAYER.velocity.y < 0
          IN  /\ (~landing /\ ceiling) =>
                    /\ PLAYER'.velocity.y = 0
                    /\ PLAYER'.velocity.x = PLAYER.velocity.x
                    /\ PLAYER'.health = PLAYER.health
                    /\ PLAYER'.is_grounded = PLAYER.is_grounded
              /\ (~landing /\ ~ceiling) =>
                    /\ ~PLAYER'.is_grounded
                    /\ PLAYER'.velocity = PLAYER.velocity
                    /\ PLAYER'.health = PLAYER.health]_vars

\* C15 witness: the player has jumped off a platform into the one above it;
\* the bump has stopped the rise and is_grounded is still set.
C15_Witness ==
    /\ pc = "update_camera"
    /\ resolved.branch = "ceiling"
    /\ resolved.mtv.y > 0
    /\ PLAYER.velocity.y = 0
    /\ PLAYER.is_grounded

\* C14: the collision pass sets every obstacle's is_player_attached to
\* (MTV(player rect before the correction, obstacle rect).y < 0 and
\* speed > 0); no other call writes the flags, so update_obstacles of tick N
\* reads those of the resolver of tick N-1; and update_obstacles does not
\* translate the player when no moving obstacle has its flag set.
C14_AttachmentTiming ==
    [][/\ pc = "update_player_collisions" =>
             \A i \in 0..(N_OBSTACLES - 1) :
                 OBSTACLES'[i].is_player_attached
                     = (/\ get_aabb_mtv(get_player_rect(PLAYER), OBSTACLES[i].rect).y < 0
                        /\ OBSTACLES[i].speed > 0)
       /\ pc # "update_player_collisions" =>
             \A i \in 0..(MAX_N_OBSTACLES - 1) :
                 OBSTACLES'[i].is_player_attached = OBSTACLES[i].is_player_attached
       /\ (/\ pc = "update_obstacles"
           /\ \A i \in 0..(N_OBSTACLES - 1) :
                 ~(OBSTACLES[i].is_player_attached /\ OBSTACLES[i].speed > 0))
             => PLAYER'.position = PLAYER.position]_vars

\* C14 witness: in the second tick or later, update_obstacles has carried
\* the player along with the platform the previous tick's landing attached
\* it to.
C14_Witness ==
    /\ pc = "update_player_collisions"
    /\ nframes >= 2
    /\ ~frame.key_a /\ ~frame.key_d /\ ~frame.key_r
    /\ resolved.branch = "landing"
    /\ \E i \in 0..(N_OBSTACLES - 1) :
          /\ OBSTACLES[i].is_player_attached
          /\ OBSTACLES[i].speed > 0
          /\ ~OBSTACLES[i].is_moving_to_start
          /\ PLAYER.position.x = frame.dt * OBSTACLES[i].speed

\* update_obstacles leaves obstacle i of speed zero alone
StaticUntouched(i) ==
    OBSTACLES[i].speed = 0 =>
        /\ OBSTACLES'[i].rect = OBSTACLES[i].rect
        /\ OBSTACLES'[i].is_moving_to_start = OBSTACLES[i].is_moving_to_start

\* C16 (as stated): update_obstacles leaves rect and is_moving_to_start of
\* every obstacle of speed zero unchanged, and the player position too when
\* no obstacle has a positive speed; an obstacle spawned with start = end
\* and speed > 0 keeps its rect position on every tick.
C16_NonMovingNeverMove ==
    [][pc = "update_obstacles" =>
          /\ \A i \in 0..(N_OBSTACLES - 1) :
                /\ StaticUntouched(i)
                /\ (OBSTACLES[i].speed > 0 /\ OBSTACLES[i].start = OBSTACLES[i].end) =>
                      /\ OBSTACLES'[i].rect.x = OBSTACLES[i].rect.x
                      /\ OBSTACLES'[i].rect.y = OBSTACLES[i].rect.y
          /\ (\A i \in 0..(N_OBSTACLES - 1) : OBSTACLES[i].speed = 0)
                => PLAYER'.position = PLAYER.position]_vars

\* C16 (amended): as above for the obstacles of speed zero; an obstacle with
\* start = end and speed > 0 has its rect position at start after every
\* update_obstacles call (unchanged when it was already there, snapped there
\* otherwise), its is_moving_to_start flips on every call, and the player is
\* not translated when every moving obstacle is of that kind.
C16_NonMovingSnapToStart ==
    [][pc = "update_obstacles" =>
          /\ \A i \in 0..(N_OBSTACLES - 1) :
                /\ StaticUntouched(i)
                /\ (OBSTACLES[i].speed > 0 /\ OBSTACLES[i].start = OBSTACLES[i].end) =>
                      /\ OBSTACLES'[i].rect.x = OBSTACLES[i].start.x
                      /\ OBSTACLES'[i].rect.y = OBSTACLES[i].start.y
                      /\ OBSTACLES'[i].rect.width = OBSTACLES[i].rect.width
                      /\ OBSTACLES'[i].rect.height = OBSTACLES[i].rect.height
                      /\ OBSTACLES'[i].is_moving_to_start = ~OBSTACLES[i].is_moving_to_start
          /\ (\A i \in 0..(N_OBSTACLES - 1) :
                  OBSTACLES[i].speed = 0 \/ OBSTACLES[i].start = OBSTACLES[i].end)
                => PLAYER'.position = PLAYER.position]_vars

\* C16 witness: update_obstacles has run on an array that holds a static
\* obstacle and an obstacle with start = end and speed > 0 that was spawned
\* away from start: the latter now sits at start, with its direction flag
\* flipped, and the player stands attached to it.
C16_Witness ==
    /\ pc = "update_player_collisions"
    /\ \E i \in 0..(N_OBSTACLES - 1) : OBSTACLES[i].speed = 0
    /\ \E i \in 0..(N_OBSTACLES - 1) :
          /\ OBSTACLES[i].speed > 0
          /\ OBSTACLES[i].start = OBSTACLES[i].end
          /\ OBSTACLES[i].rect.x = OBSTACLES[i].start.x
          /\ OBSTACLES[i].is_moving_to_start
          /\ OBSTACLES[i].is_player_attached
          /\ \E a \in SpawnArgs :
                /\ a.start = OBSTACLES[i].start /\ a.end = OBSTACLES[i].end
                /\ a.speed = OBSTACLES[i].speed
                /\ a.rect.x # a.start.x

\* PLAYER.position on the grid of CAMERA.target
PlayerOnCameraGrid == Vec(PLAYER.position.x * CamScale, PLAYER.position.y * CamScale)

\* C17: update_camera sets camera.target to
\* old target + 0.1 * (PLAYER.position - old target), so the offset to the
\* player becomes 0.9 of what it was, component by component (no
\* overshoot); no other step changes camera.target.
C17_CameraTracking ==
    [][/\ pc = "update_camera" =>
             LET before == Vector2Subtract(PlayerOnCameraGrid, CAMERA.target)
                 after  == Vector2Subtract(PlayerOnCameraGrid, CAMERA'.target)
                 moved  == Vector2Subtract(CAMERA'.target, CAMERA.target)
             IN  /\ 10 * moved.x = before.x /\ 10 * moved.y = before.y
                 /\ 10 * after.x = 9 * before.x /\ 10 * after.y = 9 * before.y
       /\ pc # "update_camera" => CAMERA' = CAMERA]_vars

\* C17 witness: a reset has just put the player back at (0, 0) while the
\* camera, which had followed the falling player, stays where it was.
C17_Witness ==
    /\ pc = "update_player"
    /\ frame.key_r
    /\ PLAYER.position = Vector2Zero
    /\ CAMERA.target.y > 0
    /\ CAMERA.target.x # 0

\* the obstacles the player rectangle overlaps
Hits ==
    {i \in 0..(N_OBSTACLES - 1) : Overlaps(get_player_rect(PLAYER), OBSTACLES[i].rect)}

\* C18: when the player rectangle overlaps exactly one obstacle at collision
\* resolution, the combined correction is that obstacle's MTV, it is what is
\* added to PLAYER.position, and afterwards the player rectangle does not
\* overlap that obstacle.
C18_SingleOverlapSeparates ==
    [][(pc = "update_player_collisions" /\ Cardinality(Hits) = 1) =>
          \A i \in Hits :
              LET m == get_aabb_mtv(get_player_rect(PLAYER), OBSTACLES[i].rect)
              IN  /\ PendingMtv = m
                  /\ PLAYER'.position = Vector2Add(PLAYER.position, m)
                  /\ ~Overlaps(get_player_rect(PLAYER'), OBSTACLES'[i].rect)]_vars

\* C18 witness: a resolution has pushed the player down out of the one
\* obstacle it had entered from below; the player now touches it and
\* overlaps nothing.
C18_Witness ==
    /\ pc = "update_camera"
    /\ resolved.mtv.y > 0
    /\ Hits = {}
    /\ Cardinality({i \in 0..(N_OBSTACLES - 1) :
                       Meets(get_player_rect(PLAYER), OBSTACLES[i].rect)}) = 1

\* C20: PLAYER.velocity.x is 0 before and after every step, and a hard
\* landing takes its damage from |velocity.y|.
C20_NoHorizontalVelocity ==
    [][/\ PLAYER.velocity.x = 0
       /\ PLAYER'.velocity.x = 0
       /\ (/\ pc = "update_player_collisions"
           /\ PendingMtv.y < 0
           /\ PLAYER.velocity.y > 0)
             => /\ resolved'.speed = Abs(PLAYER.velocity.y)
                /\ PLAYER.health - PLAYER'.health
                      = Max(0, Abs(PLAYER.velocity.y) - MAX_SPEED_WITHOUT_DAMAGE)]_vars

\* C20 witness: update_player has walked the player to the right with D held
\* while it falls; its velocity is still vertical.
C20_Witness ==
    /\ pc = "update_obstacles"
    /\ nframes = 1
    /\ frame.key_d /\ ~frame.key_a /\ ~frame.key_r
    /\ PLAYER.position.x = PLAYER.speed * frame.dt
    /\ PLAYER.velocity.x = 0
    /\ PLAYER.velocity.y > 0

\* the moving obstacles the player is attached to
Riding ==
    {i \in 0..(N_OBSTACLES - 1) :
        OBSTACLES[i].is_player_attached /\ OBSTACLES[i].speed > 0}

\* C19: when the player is attached to exactly one moving obstacle,
\* update_obstacles changes PLAYER.position by exactly the net change of that
\* obstacle's rect position, also in a tick in which the obstacle reaches an
\* endpoint and is snapped to it.
C19_RidingKeepsOffset ==
    [][(pc = "update_obstacles" /\ Cardinality(Riding) = 1) =>
          \A i \in Riding :
              /\ PLAYER'.position.x - PLAYER.position.x
                    = OBSTACLES'[i].rect.x - OBSTACLES[i].rect.x
              /\ PLAYER'.position.y - PLAYER.position.y
                    = OBSTACLES'[i].rect.y - OBSTACLES[i].rect.y]_vars

===========================================================================
